---- MODULE Spec2Model ----
(***************************************************************************)
(* Bangalore Traffic Sentinel API (backend/server.py).                     *)
(*                                                                         *)
(* Numbers.  traffic values are floats rounded to 2 decimals; they are     *)
(* kept here as integers in hundredths of a PCU ("cents"): 1500.00 is      *)
(* 150000.  weekend_factor and hour_multiplier are kept in tenths,         *)
(* day_factor in hundredths, latitude/longitude in 1e-4 degrees.           *)
(* random.random() is a draw r in 0..JitterDen-1 standing for the float    *)
(* r/JitterDen in [0.0, 1.0).  round(x, 2) is round-half-even on the exact *)
(* quotient.                                                               *)
(*                                                                         *)
(* Text.  request.place is a sequence of one-character strings, so that    *)
(* .lower() and .replace(" ", "_") act on its characters.  Other strings   *)
(* are never taken apart by the code and stay TLA+ strings.                *)
(***************************************************************************)
EXTENDS Integers, Sequences, FiniteSets, TLC

\* store           db.traffic_predictions, the documents in insertion order (line 216)
\* pc              where each request task stands: "idle", "awaiting" (suspended
\*                 in await insert_one), "rejected" (HTTPException 400),
\*                 "responded" (returned), "failed" (insert_one raised)
\* request         the TrafficPredictionRequest of each task (lines 103-107)
\* report          what the task computed before the await (lines 159-203)
\* prediction_doc  the document the task hands to insert_one (lines 206-215)
\* response        what the caller received
\* requests        requests received so far; the source of uuid4() and now()
\* accepted        requests that passed the three checks (lines 161-177)
\* auditFailures   insert_one calls that raised
\* call            one direct call of a function with its result (SpecFn)
VARIABLES store, pc, request, report, prediction_doc, response, requests, accepted, auditFailures, call

vars == <<store, pc, request, report, prediction_doc, response, requests, accepted,
          auditFailures, call>>

handlerVars ==
    <<store, pc, request, report, prediction_doc, response, requests, accepted, auditFailures>>

\* ------------------------------------------------------------------ bounds

\* a request covers at most MaxSpan hours (end_hour - start_hour + 1 <= MaxSpan)
MaxSpan == 3

\* random.random() is one of 0/JitterDen .. (JitterDen-1)/JitterDen
JitterDen == 10

\* requests the server receives in one behaviour
MaxRequests == 2

\* ------------------------------------------------------------------ text

UPPERCASE == <<"A", "B", "C", "D", "E", "F", "G", "H", "I", "J", "K", "L", "M", "N", "O", "P", "Q", "R", "S", "T", "U", "V", "W", "X", "Y", "Z">>

LOWERCASE == <<"a", "b", "c", "d", "e", "f", "g", "h", "i", "j", "k", "l", "m", "n", "o", "p", "q", "r", "s", "t", "u", "v", "w", "x", "y", "z">>

\* str.lower() on one character
LowerChar(c) ==
    IF \E i \in 1..Len(UPPERCASE) : UPPERCASE[i] = c
    THEN LOWERCASE[CHOOSE i \in 1..Len(UPPERCASE) : UPPERCASE[i] = c]
    ELSE c

\* request.place.lower().replace(" ", "_")
NormalisePlace(s) ==
    [i \in 1..Len(s) |-> IF LowerChar(s[i]) = " " THEN "_" ELSE LowerChar(s[i])]

silk_board == <<"s", "i", "l", "k", "_", "b", "o", "a", "r", "d">>

kr_puram == <<"k", "r", "_", "p", "u", "r", "a", "m">>

whitefield == <<"w", "h", "i", "t", "e", "f", "i", "e", "l", "d">>

hebbal == <<"h", "e", "b", "b", "a", "l">>

\* "Silk Board", "KR PURAM", "invalid_location", "silk  board"
PLACE_SILK_BOARD_DISPLAY == <<"S", "i", "l", "k", " ", "B", "o", "a", "r", "d">>

PLACE_KR_PURAM_UPPER == <<"K", "R", " ", "P", "U", "R", "A", "M">>

PLACE_INVALID == <<"i", "n", "v", "a", "l", "i", "d", "_", "l", "o", "c", "a", "t", "i", "o", "n">>

PLACE_DOUBLE_SPACE == <<"s", "i", "l", "k", " ", " ", "b", "o", "a", "r", "d">>

\* ------------------------------------------------------------------ tables

TRAFFIC_LOCATIONS ==
    silk_board :> [name |-> "Silk Board", latitude |-> 129177, longitude |-> 776233] @@
    kr_puram   :> [name |-> "KR Puram",   latitude |-> 130075, longitude |-> 776959] @@
    whitefield :> [name |-> "Whitefield", latitude |-> 129698, longitude |-> 777500] @@
    hebbal     :> [name |-> "Hebbal",     latitude |-> 130358, longitude |-> 775970]

DAYS_OF_WEEK ==
    <<"Monday", "Tuesday", "Wednesday", "Thursday", "Friday", "Saturday", "Sunday">>

DaySet == {DAYS_OF_WEEK[i] : i \in 1..Len(DAYS_OF_WEEK)}

base_traffic ==
    silk_board :> 2500 @@ kr_puram :> 2200 @@ whitefield :> 1800 @@ hebbal :> 2000

\* ------------------------------------------------------------------ predict_traffic_value

\* round(n/d, 0) for n >= 0, d > 0, ties to even
RoundHalfEven(n, d) ==
    LET q == n \div d
        r == n % d
    IN  IF 2 * r < d THEN q
        ELSE IF 2 * r > d THEN q + 1
        ELSE IF q % 2 = 0 THEN q ELSE q + 1

\* base_traffic.get(place, 1500)
BaseOf(place) ==
    IF place \in DOMAIN base_traffic THEN base_traffic[place] ELSE 1500

\* 0.6 if day in ["Saturday", "Sunday"] else 1.0, in tenths
WeekendFactor(day) ==
    IF day \in {"Saturday", "Sunday"} THEN 6 ELSE 10

HourMultiplierLate(hour) ==
    IF 8 < hour /\ hour <= 10 THEN 18
    ELSE IF 17 <= hour /\ hour <= 20 THEN 20
    ELSE IF 12 <= hour /\ hour <= 14 THEN 13
    ELSE IF 0 <= hour /\ hour <= 5 THEN 3
    ELSE IF 22 <= hour /\ hour <= 23 THEN 5
    ELSE 10

\* the if/elif chain over the hour, in tenths
HourMultiplier(hour) ==
    IF 8 <= hour /\ hour <= 10 THEN 18
    ELSE IF 17 <= hour /\ hour <= 20 THEN 20
    ELSE IF 12 <= hour /\ hour <= 14 THEN 13
    ELSE IF 0 <= hour /\ hour <= 5 THEN 3
    ELSE IF 22 <= hour /\ hour <= 23 THEN 5
    ELSE 10

\* 1.15 on Friday, 1.1 on Monday, else 1.0, in hundredths
DayFactor(day) ==
    IF day = "Friday" THEN 115
    ELSE IF day = "Monday" THEN 110
    ELSE 100

\* base * weekend_factor * hour_multiplier * day_factor, in cents: the product of
\* the scaled factors is in 1e-4 PCU and, every base being a multiple of 100, a
\* multiple of 100
RawTraffic(place, day, hour) ==
    (BaseOf(place) * WeekendFactor(day) * HourMultiplier(hour) * DayFactor(day)) \div 100

\* round(traffic * (0.9 + random.random() * 0.2), 2), in cents, for the draw r:
\* 0.9 + (r/JitterDen) * 0.2 = (9 * JitterDen + 2 * r) / (10 * JitterDen)
predict_traffic_value(place, day, hour, r) ==
    RoundHalfEven(RawTraffic(place, day, hour) * (9 * JitterDen + 2 * r),
                  10 * JitterDen)

\* ------------------------------------------------------------------ get_traffic_level

get_traffic_level_inclusive(traffic_value) ==
    IF traffic_value <= 150000
    THEN [level |-> "Normal", color |-> "#10B981", severity |-> 1]
    ELSE IF traffic_value <= 250000
    THEN [level |-> "Moderate", color |-> "#F59E0B", severity |-> 2]
    ELSE [level |-> "High", color |-> "#EF4444", severity |-> 3]

get_traffic_level(traffic_value) ==
    IF traffic_value < 150000
    THEN [level |-> "Normal", color |-> "#10B981", severity |-> 1]
    ELSE IF traffic_value < 250000
    THEN [level |-> "Moderate", color |-> "#F59E0B", severity |-> 2]
    ELSE [level |-> "High", color |-> "#EF4444", severity |-> 3]

\* ------------------------------------------------------------------ predict_traffic_range

ValidationErrorNoDay(place, req) ==
    IF place \notin DOMAIN TRAFFIC_LOCATIONS
    THEN "Invalid location. Supported locations: ['silk_board', 'kr_puram', 'whitefield', 'hebbal']"
    ELSE IF req.end_hour < req.start_hour
    THEN "End hour must be greater than or equal to start hour"
    ELSE ""

ValidationErrorDayAnyCase(place, req) ==
    IF place \notin DOMAIN TRAFFIC_LOCATIONS
    THEN "Invalid location. Supported locations: ['silk_board', 'kr_puram', 'whitefield', 'hebbal']"
    ELSE IF req.day \notin DaySet \cup {"monday"}
    THEN "Invalid day. Supported days: ['Monday', 'Tuesday', 'Wednesday', 'Thursday', 'Friday', 'Saturday', 'Sunday']"
    ELSE IF req.end_hour < req.start_hour
    THEN "End hour must be greater than or equal to start hour"
    ELSE ""

\* the three checks that raise HTTPException(400), in order; "" when none raises
ValidationError(place, req) ==
    IF place \notin DOMAIN TRAFFIC_LOCATIONS
    THEN "Invalid location. Supported locations: ['silk_board', 'kr_puram', 'whitefield', 'hebbal']"
    ELSE IF req.day \notin DaySet
    THEN "Invalid day. Supported days: ['Monday', 'Tuesday', 'Wednesday', 'Thursday', 'Friday', 'Saturday', 'Sunday']"
    ELSE IF req.end_hour < req.start_hour
    THEN "End hour must be greater than or equal to start hour"
    ELSE ""

HourRangeShifted(start_hour, end_hour) ==
    [i \in 1..(end_hour + 1 - start_hour) |-> start_hour + i]

\* range(request.start_hour, request.end_hour + 1)
HourRange(start_hour, end_hour) ==
    [i \in 1..(end_hour + 1 - start_hour) |-> start_hour + i - 1]

\* the loop body: one HourlyPrediction for the hour, with the draw r
HourlyPrediction(place, day, hour, r) ==
    LET traffic_value == predict_traffic_value(place, day, hour, r)
        level_info    == get_traffic_level(traffic_value)
    IN  [hour          |-> hour,
         traffic_value |-> traffic_value,
         traffic_level |-> level_info.level,
         color         |-> level_info.color,
         severity      |-> level_info.severity]

\* the loop: predictions, in the order of the hours; jitter[i] is the i-th draw
Predictions(place, day, hours, jitter) ==
    [i \in 1..Len(hours) |-> HourlyPrediction(place, day, hours[i], jitter[i])]

\* the arguments of the calls to predict_traffic_value, in order
PredictCalls(place, day, hours) ==
    [i \in 1..Len(hours) |-> [place |-> place, day |-> day, hour |-> hours[i]]]

RECURSIVE MaxFrom(_, _, _)
\* max(): scan left to right, replace the best only by a strictly larger key
MaxFrom(ps, i, best) ==
    IF i > Len(ps) THEN best
    ELSE MaxFrom(ps, i + 1,
                 IF ps[i].traffic_value > best.traffic_value THEN ps[i] ELSE best)

RECURSIVE MaxFromLast(_, _, _)
MaxFromLast(ps, i, best) ==
    IF i > Len(ps) THEN best
    ELSE MaxFromLast(ps, i + 1,
                     IF ps[i].traffic_value >= best.traffic_value THEN ps[i] ELSE best)

RECURSIVE MinFrom(_, _, _)
MinFrom(ps, i, best) ==
    IF i > Len(ps) THEN best
    ELSE MinFrom(ps, i + 1,
                 IF ps[i].traffic_value < best.traffic_value THEN ps[i] ELSE best)

PeakPredictionLast(predictions) == MaxFromLast(predictions, 2, predictions[1])

PeakPredictionMin(predictions) == MinFrom(predictions, 2, predictions[1])

\* max(predictions, key=lambda x: x.traffic_value)
PeakPrediction(predictions) == MaxFrom(predictions, 2, predictions[1])

RECURSIVE SumTraffic(_, _)
SumTraffic(ps, i) ==
    IF i > Len(ps) THEN 0 ELSE ps[i].traffic_value + SumTraffic(ps, i + 1)

\* round(sum(p.traffic_value) / len(predictions), 2), in cents
AverageTraffic(predictions) ==
    RoundHalfEven(SumTraffic(predictions, 1), Len(predictions))

InsightBySeverityOnly(peak_prediction) ==
    IF peak_prediction.severity = 3
    THEN "Peak congestion expected at " \o ToString(peak_prediction.hour)
         \o ":00. Consider alternative routes or delay travel by 1-2 hours."
    ELSE "Traffic conditions are favorable. Smooth commute expected throughout the selected time range."

\* the insight f-strings, selected by peak_prediction.severity
Insight(peak_prediction) ==
    IF peak_prediction.severity = 3
    THEN "Peak congestion expected at " \o ToString(peak_prediction.hour)
         \o ":00. Consider alternative routes or delay travel by 1-2 hours."
    ELSE IF peak_prediction.severity = 2
    THEN "Moderate traffic expected. " \o ToString(peak_prediction.hour)
         \o ":00 shows highest activity. Plan buffer time."
    ELSE "Traffic conditions are favorable. Smooth commute expected throughout the selected time range."

\* the handler up to the audit write: the HTTPException, or the TrafficPredictionResponse
\* it will return; "calls" are the calls it made to predict_traffic_value
RangeReport(req, jitter) ==
    LET place == NormalisePlace(req.place)
        error == ValidationError(place, req)
    IN  IF error # ""
        THEN [status |-> 400, detail |-> error, calls |-> <<>>]
        ELSE LET location        == TRAFFIC_LOCATIONS[place]
                 hours           == HourRange(req.start_hour, req.end_hour)
                 predictions     == Predictions(place, req.day, hours, jitter)
                 peak_prediction == PeakPrediction(predictions)
             IN  [status          |-> 200,
                  place           |-> place,
                  place_name      |-> location.name,
                  latitude        |-> location.latitude,
                  longitude       |-> location.longitude,
                  day             |-> req.day,
                  predictions     |-> predictions,
                  peak_hour       |-> peak_prediction.hour,
                  peak_traffic    |-> peak_prediction.traffic_value,
                  average_traffic |-> AverageTraffic(predictions),
                  insight         |-> Insight(peak_prediction),
                  calls           |-> PredictCalls(place, req.day, hours)]

PredictionDocRawPlace(req, rep, id) ==
    [id           |-> id,
     place        |-> req.place,
     day          |-> req.day,
     start_hour   |-> req.start_hour,
     end_hour     |-> req.end_hour,
     peak_hour    |-> rep.peak_hour,
     peak_traffic |-> rep.peak_traffic,
     timestamp    |-> id]

\* prediction_doc; uuid4() and now() are the fresh number id
PredictionDoc(req, rep, id) ==
    [id           |-> id,
     place        |-> rep.place,
     day          |-> req.day,
     start_hour   |-> req.start_hour,
     end_hour     |-> req.end_hour,
     peak_hour    |-> rep.peak_hour,
     peak_traffic |-> rep.peak_traffic,
     timestamp    |-> id]

\* TrafficPredictionResponse(...): the report without the bookkeeping of the calls
Response(rep) ==
    [status          |-> 200,
     place           |-> rep.place,
     place_name      |-> rep.place_name,
     latitude        |-> rep.latitude,
     longitude       |-> rep.longitude,
     day             |-> rep.day,
     predictions     |-> rep.predictions,
     peak_hour       |-> rep.peak_hour,
     peak_traffic    |-> rep.peak_traffic,
     average_traffic |-> rep.average_traffic,
     insight         |-> rep.insight]

\* ------------------------------------------------------------------ inputs

\* the request tasks that may be in flight together
Handlers == {"h1", "h2"}

Hours == 0..23

\* request bodies of the served requests: an identifier, a display name that
\* normalises to it, and an unknown place; a weekday and an unknown day
ReqPlaces == {silk_board, PLACE_SILK_BOARD_DISPLAY, PLACE_INVALID}

ReqDays == {"Monday", "InvalidDay"}

ReqStartHours == {8, 10}

ReqEndHours == {9}

ReqJitters == {0, JitterDen - 1}

Requests ==
    [place : ReqPlaces, day : ReqDays, start_hour : ReqStartHours, end_hour : ReqEndHours]

\* inputs of the direct calls
FnPlaces ==
    DOMAIN TRAFFIC_LOCATIONS
      \cup {PLACE_SILK_BOARD_DISPLAY, PLACE_KR_PURAM_UPPER, PLACE_INVALID, PLACE_DOUBLE_SPACE}

FnDays == DaySet \cup {"InvalidDay", "monday"}

Jitters == 0..(JitterDen - 1)

\* the draws of a range call: the least, a middle and the greatest
RangeJitters == {0, JitterDen \div 2, JitterDen - 1}

FnRequests ==
    {req \in [place : FnPlaces, day : FnDays, start_hour : Hours, end_hour : Hours] :
        /\ req.end_hour - req.start_hour < MaxSpan
        /\ req.start_hour - req.end_hour <= MaxSpan}

ProbeValues ==
    {0, 1, 149998, 149999, 150000, 150001, 249999, 250000, 250001, 600000}

\* the draws of one request: one per hour of a request that passes validation
JitterChoices(req, draws) ==
    IF ValidationError(NormalisePlace(req.place), req) = ""
    THEN [1..(req.end_hour + 1 - req.start_hour) -> draws]
    ELSE {<<>>}

NoRequest == [place |-> <<>>, day |-> "", start_hour |-> 0, end_hour |-> 0]

NoReport == [status |-> 0]

NoCall == [fn |-> "none"]

\* ------------------------------------------------------------------ state machine

Init ==
    /\ store = <<>>
    /\ pc = [h \in Handlers |-> "idle"]
    /\ request = [h \in Handlers |-> NoRequest]
    /\ report = [h \in Handlers |-> NoReport]
    /\ prediction_doc = [h \in Handlers |-> NoReport]
    /\ response = [h \in Handlers |-> NoReport]
    /\ requests = 0
    /\ accepted = 0
    /\ auditFailures = 0
    /\ call = NoCall

\* POST /predict-traffic up to "await db.traffic_predictions.insert_one": the
\* checks, the loop, peak, average, insight and prediction_doc run without a
\* suspension point; a check that fails answers 400 at once
Receive(h) ==
    /\ pc[h] # "awaiting"
    /\ requests < MaxRequests
    /\ \E req \in Requests :
         \E jitter \in JitterChoices(req, ReqJitters) :
            LET rep == RangeReport(req, jitter) IN
            /\ requests' = requests + 1
            /\ request' = [request EXCEPT ![h] = req]
            /\ report' = [report EXCEPT ![h] = rep]
            /\ IF rep.status = 400
               THEN /\ pc' = [pc EXCEPT ![h] = "rejected"]
                    /\ response' = [response EXCEPT
                                      ![h] = [status |-> 400, detail |-> rep.detail]]
                    /\ prediction_doc' = [prediction_doc EXCEPT ![h] = NoReport]
                    /\ accepted' = accepted
               ELSE /\ pc' = [pc EXCEPT ![h] = "awaiting"]
                    /\ response' = [response EXCEPT ![h] = NoReport]
                    /\ prediction_doc' =
                         [prediction_doc EXCEPT
                            ![h] = PredictionDoc(req, rep, requests + 1)]
                    /\ accepted' = accepted + 1
    /\ UNCHANGED <<store, auditFailures, call>>

\* insert_one completes: the document is in the collection and the handler
\* returns the TrafficPredictionResponse
InsertOK(h) ==
    /\ pc[h] = "awaiting"
    /\ store' = Append(store, prediction_doc[h])
    /\ response' = [response EXCEPT ![h] = Response(report[h])]
    /\ pc' = [pc EXCEPT ![h] = "responded"]
    /\ UNCHANGED <<request, report, prediction_doc, requests, accepted, auditFailures, call>>

\* insert_one raises: nothing catches it, the exception leaves the handler and
\* the framework answers 500; the write that raised stored no document
InsertFail(h) ==
    /\ pc[h] = "awaiting"
    /\ response' = [response EXCEPT
                      ![h] = [status |-> 500, detail |-> "Internal Server Error"]]
    /\ pc' = [pc EXCEPT ![h] = "failed"]
    /\ auditFailures' = auditFailures + 1
    /\ UNCHANGED <<store, request, report, prediction_doc, requests, accepted, call>>

Next ==
    \/ \E h \in Handlers : Receive(h)
    \/ \E h \in Handlers : InsertOK(h)
    \/ \E h \in Handlers : InsertFail(h)

Spec == Init /\ [][Next]_vars

\* ------------------------------------------------------------------ direct calls

\* one call of a function on one input, from the initial state

CallPredictTrafficValue ==
    /\ call = NoCall
    /\ \E place \in DOMAIN TRAFFIC_LOCATIONS, day \in DaySet, hour \in Hours, r \in Jitters :
         call' = [fn     |-> "predict_traffic_value",
                  place  |-> place,
                  day    |-> day,
                  hour   |-> hour,
                  r      |-> r,
                  result |-> predict_traffic_value(place, day, hour, r)]
    /\ UNCHANGED handlerVars

CallGetTrafficLevel ==
    /\ call = NoCall
    /\ \E value \in ProbeValues :
         call' = [fn     |-> "get_traffic_level",
                  value  |-> value,
                  result |-> get_traffic_level(value)]
    /\ UNCHANGED handlerVars

\* the computation of predict_traffic_range, on any request and any draws
CallRangeReport ==
    /\ call = NoCall
    /\ \E req \in FnRequests :
         \E jitter \in JitterChoices(req, RangeJitters) :
            call' = [fn      |-> "predict_traffic_range",
                     request |-> req,
                     jitter  |-> jitter,
                     result  |-> RangeReport(req, jitter)]
    /\ UNCHANGED handlerVars

NextFn ==
    \/ CallPredictTrafficValue
    \/ CallGetTrafficLevel
    \/ CallRangeReport

SpecFn == Init /\ [][NextFn]_vars

\* ------------------------------------------------------------------ claims: the handler

Finished(h) == pc[h] \in {"rejected", "responded", "failed"}

\* C1 (as stated): when the audit write of a request that passed validation
\* fails, the caller still receives the computed RangeReport, not an error.
C1_AuditFailureNonFatal ==
    \A h \in Handlers :
        pc[h] = "failed" =>
            /\ response[h].status = 200
            /\ response[h] = Response(report[h])

\* the request's place, as sent, is not a location identifier, or its day is
\* no weekday name, or its range is reversed
InvalidAsSent(req) ==
    \/ req.place \notin {silk_board, kr_puram, whitefield, hebbal}
    \/ req.day \notin {"Monday", "Tuesday", "Wednesday", "Thursday", "Friday",
                       "Saturday", "Sunday"}
    \/ req.end_hour < req.start_hour

\* the same, with the place lower-cased and its spaces made underscores
InvalidNormalised(req) ==
    \/ NormalisePlace(req.place) \notin {silk_board, kr_puram, whitefield, hebbal}
    \/ req.day \notin {"Monday", "Tuesday", "Wednesday", "Thursday", "Friday",
                       "Saturday", "Sunday"}
    \/ req.end_hour < req.start_hour

IsRangeReport(resp) == resp.status = 200 /\ "predictions" \in DOMAIN resp

\* C2 (as stated), over the requests the handler itself answered, that is all
\* but those whose audit write raised (C1): a request whose place is not one of
\* the four identifiers, or whose day is no weekday name, or with
\* end_hour < start_hour, is answered 400 without a RangeReport; every other
\* request is answered with a RangeReport.
C2_AsStated ==
    \A h \in Handlers :
        pc[h] \in {"rejected", "responded"} =>
            IF InvalidAsSent(request[h])
            THEN response[h].status = 400 /\ "predictions" \notin DOMAIN response[h]
            ELSE IsRangeReport(response[h])

\* C2 (amended): the answer is 400, without a RangeReport, exactly when the
\* place after normalisation is not one of the four identifiers, or the day is
\* no weekday name, or end_hour < start_hour; every other request is answered
\* with its RangeReport, or with a server error when its audit write raised.
C2_ValidationOnNormalisedPlace ==
    \A h \in Handlers :
        Finished(h) =>
            /\ (response[h].status = 400) <=> InvalidNormalised(request[h])
            /\ response[h].status = 400 => "predictions" \notin DOMAIN response[h]
            /\ ~InvalidNormalised(request[h]) =>
                  \/ pc[h] = "responded" /\ IsRangeReport(response[h])
                  \/ pc[h] = "failed" /\ response[h].status = 500

\* a display name was accepted and answered with a report while a reversed
\* range on a valid place and day was rejected
C2_Witness ==
    \E h1, h2 \in Handlers :
        /\ pc[h1] = "responded"
        /\ request[h1].place = PLACE_SILK_BOARD_DISPLAY
        /\ IsRangeReport(response[h1])
        /\ pc[h2] = "rejected"
        /\ request[h2].place = silk_board
        /\ request[h2].day = "Monday"
        /\ request[h2].end_hour < request[h2].start_hour

Awaiting == {h \in Handlers : pc[h] = "awaiting"}

\* a record carries the six fields of the report returned for the request
RecordMatches(doc, req, resp) ==
    /\ doc.place = resp.place
    /\ doc.day = resp.day
    /\ doc.day = req.day
    /\ doc.start_hour = req.start_hour
    /\ doc.end_hour = req.end_hour
    /\ doc.start_hour = resp.predictions[1].hour
    /\ doc.end_hour = resp.predictions[Len(resp.predictions)].hour
    /\ doc.peak_hour = resp.peak_hour
    /\ doc.peak_traffic = resp.peak_traffic

C3_Count ==
    /\ auditFailures = 0 => Len(store) + Cardinality(Awaiting) = accepted
    /\ Len(store) + Cardinality(Awaiting) + auditFailures = accepted
    /\ \A i, j \in 1..Len(store) : store[i].id = store[j].id => i = j
    /\ \A h \in Handlers :
          pc[h] = "responded" =>
              \E i \in 1..Len(store) : RecordMatches(store[i], request[h], response[h])

C3_Step ==
    \/ store' = store
    \/ \E h \in Handlers :
          /\ pc[h] = "awaiting"
          /\ pc'[h] = "responded"
          /\ Len(store') = Len(store) + 1
          /\ SubSeq(store', 1, Len(store)) = store
          /\ RecordMatches(store'[Len(store')], request'[h], response'[h])

\* C3: the audit store holds one record per request that passed validation and
\* whose write completed, none for a rejected request; a step either leaves
\* the store alone or appends the record of the request being answered, whose
\* place, day, hours, peak_hour and peak_traffic are those of the report
\* returned.
C3_AuditStoreAppendOnly == [](C3_Count) /\ [][C3_Step]_vars

\* two requests were in flight together, their writes completed in the other
\* order, and a display-name request is among them
C3_Witness ==
    /\ Len(store) = 2
    /\ accepted = 2
    /\ store[1].id > store[2].id
    /\ \E h \in Handlers :
          pc[h] = "responded" /\ request[h].place = PLACE_SILK_BOARD_DISPLAY

\* ------------------------------------------------------------------ claims: the functions

RangeOk == call.fn = "predict_traffic_range" /\ call.result.status = 200

Preds == call.result.predictions

\* C4: the predictions of a validated request are end_hour - start_hour + 1
\* entries, the i-th for the hour start_hour + i (counting from 0): contiguous,
\* increasing, from start_hour to end_hour.
C4_ContiguousHours ==
    RangeOk =>
        /\ 0 <= call.request.start_hour
        /\ call.request.start_hour <= call.request.end_hour
        /\ call.request.end_hour <= 23
        /\ Len(Preds) = call.request.end_hour - call.request.start_hour + 1
        /\ \A i \in 1..Len(Preds) : Preds[i].hour = call.request.start_hour + (i - 1)
        /\ Preds[1].hour = call.request.start_hour
        /\ Preds[Len(Preds)].hour = call.request.end_hour
        /\ \A i \in 1..(Len(Preds) - 1) : Preds[i + 1].hour = Preds[i].hour + 1

\* a report over the longest range, one that ends at hour 23
C4_Witness ==
    /\ RangeOk
    /\ Len(Preds) = MaxSpan
    /\ call.request.end_hour = 23

\* C5: peak_traffic is the greatest traffic_value of the predictions, peak_hour
\* is the hour of the first prediction that has it, and lies in the range.
C5_PeakIsFirstMaximum ==
    RangeOk =>
        /\ \A i \in 1..Len(Preds) : Preds[i].traffic_value <= call.result.peak_traffic
        /\ \E i \in 1..Len(Preds) :
              /\ Preds[i].traffic_value = call.result.peak_traffic
              /\ Preds[i].hour = call.result.peak_hour
              /\ \A j \in 1..(i - 1) : Preds[j].traffic_value < call.result.peak_traffic
        /\ call.request.start_hour <= call.result.peak_hour
        /\ call.result.peak_hour <= call.request.end_hour

\* two hours tie for the peak, and the peak is not the first hour of the range
C5_Witness ==
    /\ RangeOk
    /\ \E i, j \in 1..Len(Preds) :
          /\ 1 < i
          /\ i < j
          /\ Preds[i].traffic_value = call.result.peak_traffic
          /\ Preds[j].traffic_value = call.result.peak_traffic
          /\ Preds[i].hour = call.result.peak_hour

\* the tables of the claim, raw in 1e-4 PCU
C6_Base(place) ==
    CASE place = silk_board -> 2500
      [] place = kr_puram -> 2200
      [] place = whitefield -> 1800
      [] place = hebbal -> 2000

C6_Weekend(day) == IF day \in {"Saturday", "Sunday"} THEN 6 ELSE 10

C6_HourMult(hour) ==
    CASE hour \in 8..10 -> 18
      [] hour \in 17..20 -> 20
      [] hour \in 12..14 -> 13
      [] hour \in 0..5 -> 3
      [] hour \in 22..23 -> 5
      [] hour \in {6, 7, 11, 15, 16, 21} -> 10

C6_DayMult(day) ==
    CASE day = "Friday" -> 115
      [] day = "Monday" -> 110
      [] OTHER -> 100

C6_Raw(place, day, hour) ==
    C6_Base(place) * C6_Weekend(day) * C6_HourMult(hour) * C6_DayMult(day)

\* C6: for a valid location, day and hour and any draw, the value v returned
\* by predict_traffic_value has 0 <= 0.9 * raw <= v <= 1.1 * raw, raw being
\* the product of the claim's tables (v in cents is 100 units of 1e-4).
C6_JitterEnvelope ==
    call.fn = "predict_traffic_value" =>
        LET raw == C6_Raw(call.place, call.day, call.hour) IN
        /\ 0 <= 9 * raw
        /\ 9 * raw <= 10 * (100 * call.result)
        /\ 10 * (100 * call.result) <= 11 * raw

\* an evening-rush hour on a Friday at the greatest base, with the greatest draw
C6_Witness ==
    /\ call.fn = "predict_traffic_value"
    /\ call.place = silk_board
    /\ call.day = "Friday"
    /\ call.hour = 17
    /\ call.r = JitterDen - 1
    /\ call.result > 575000

\* the classification the claim gives for a value in cents
C7_Classified(value, level, color, severity) ==
    /\ value < 150000 => level = "Normal" /\ severity = 1 /\ color = "#10B981"
    /\ 150000 <= value /\ value < 250000 =>
          level = "Moderate" /\ severity = 2 /\ color = "#F59E0B"
    /\ value >= 250000 => level = "High" /\ severity = 3 /\ color = "#EF4444"

\* C7: get_traffic_level gives Normal (1) below 1500.00, Moderate (2) from
\* 1500.00 and below 2500.00, High (3) from 2500.00, and every prediction of a
\* report carries the level, color and severity of its own traffic_value.
C7_Thresholds ==
    /\ call.fn = "get_traffic_level" =>
          C7_Classified(call.value, call.result.level, call.result.color,
                        call.result.severity)
    /\ RangeOk =>
          \A i \in 1..Len(Preds) :
              C7_Classified(Preds[i].traffic_value, Preds[i].traffic_level,
                            Preds[i].color, Preds[i].severity)

\* the classifier was applied to exactly 1500.00 and said Moderate
C7_Witness ==
    /\ call.fn = "get_traffic_level"
    /\ call.value = 150000
    /\ call.result.level = "Moderate"
    /\ call.result.severity = 2

\* the severity of the prediction of the peak hour
PeakSeverity ==
    LET i == CHOOSE k \in 1..Len(Preds) : Preds[k].hour = call.result.peak_hour
    IN  Preds[i].severity

\* C8: the insight is the message of the peak's severity, naming peak_hour for
\* severities 3 and 2 and no hour for severity 1; nothing else of the report
\* enters it.
C8_InsightFromPeak ==
    RangeOk =>
        /\ PeakSeverity = 3 =>
              call.result.insight =
                 "Peak congestion expected at " \o ToString(call.result.peak_hour)
                 \o ":00. Consider alternative routes or delay travel by 1-2 hours."
        /\ PeakSeverity = 2 =>
              call.result.insight =
                 "Moderate traffic expected. " \o ToString(call.result.peak_hour)
                 \o ":00 shows highest activity. Plan buffer time."
        /\ PeakSeverity = 1 =>
              call.result.insight =
                 "Traffic conditions are favorable. Smooth commute expected throughout the selected time range."

\* a Moderate peak that is not the first hour, beside a Normal hour
C8_Witness ==
    /\ RangeOk
    /\ PeakSeverity = 2
    /\ call.result.peak_hour # call.request.start_hour
    /\ \E i \in 1..Len(Preds) : Preds[i].severity = 1

\* C9: every call the handler makes to predict_traffic_value passes a key of
\* the base table (whose keys are those of TRAFFIC_LOCATIONS), a weekday name
\* and an hour in 0..23; a rejected request makes no call.
C9_CallsAreValidated ==
    call.fn = "predict_traffic_range" =>
        /\ DOMAIN base_traffic = DOMAIN TRAFFIC_LOCATIONS
        /\ \A i \in 1..Len(call.result.calls) :
              /\ call.result.calls[i].place \in DOMAIN base_traffic
              /\ call.result.calls[i].place \in {silk_board, kr_puram, whitefield, hebbal}
              /\ call.result.calls[i].day \in
                    {"Monday", "Tuesday", "Wednesday", "Thursday", "Friday",
                     "Saturday", "Sunday"}
              /\ call.result.calls[i].hour \in 0..23
        /\ call.result.status = 400 => call.result.calls = <<>>
        /\ call.result.status = 200 =>
              Len(call.result.calls) = Len(call.result.predictions)

\* a request whose place is upper case with a space made calls, to hour 23 too
C9_Witness ==
    /\ RangeOk
    /\ call.request.place = PLACE_KR_PURAM_UPPER
    /\ Len(call.result.calls) >= 2
    /\ call.result.calls[1].place = kr_puram
    /\ call.result.calls[Len(call.result.calls)].hour = 23

MaxSeverity ==
    CHOOSE s \in 1..3 :
        /\ \E i \in 1..Len(Preds) : Preds[i].severity = s
        /\ \A i \in 1..Len(Preds) : Preds[i].severity <= s

\* C10: the severity of the peak prediction is the greatest severity of the
\* range; a favorable-conditions insight means every hour is Normal, and a
\* High hour means the High-tier insight.
C10_PeakSeverityIsMaximum ==
    RangeOk =>
        /\ PeakSeverity = MaxSeverity
        /\ call.result.insight =
              "Traffic conditions are favorable. Smooth commute expected throughout the selected time range."
              => \A i \in 1..Len(Preds) : Preds[i].traffic_level = "Normal"
        /\ (\E i \in 1..Len(Preds) : Preds[i].traffic_level = "High") =>
              call.result.insight =
                 "Peak congestion expected at " \o ToString(call.result.peak_hour)
                 \o ":00. Consider alternative routes or delay travel by 1-2 hours."

\* a range with a Normal, a Moderate and a High hour
C10_Witness ==
    /\ RangeOk
    /\ PeakSeverity = 3
    /\ \E i \in 1..Len(Preds) : Preds[i].severity = 1
    /\ \E i \in 1..Len(Preds) : Preds[i].severity = 2

====
